---- MODULE Spec2Model ----
(***************************************************************************)
(* Model of scripts/EventProducer.py: the orders polling loop              *)
(* (EventProducer.monitor_orders), the classification of an order row      *)
(* (EventProducer._determine_order_event_type), the main thread of         *)
(* EventProducer.start_monitoring, EventProducer.shutdown, the             *)
(* module-level signal_handler, the construction of EventProducer, the     *)
(* control flow of the inventory, price and customer loops, the events of  *)
(* the inventory loop, and a restart of the script; of                     *)
(* scripts/loadDataToSnowflake.py: one run of main; of                     *)
(* scripts/seed_data.py: one call of a seed function.                      *)
(*                                                                         *)
(* Timestamps are whole seconds.  An orders row is a record                *)
(* [order_id, created_at, updated_at, order_status]: the columns 0, 11, 12 *)
(* and 9 of the SELECT of monitor_orders, the only ones the control flow   *)
(* reads.                                                                  *)
(***************************************************************************)
EXTENDS Integers, Sequences, FiniteSets, TLC

VARIABLES
    orders_table,    \* the rows of the source table "orders": id -> row
    handlers,        \* TRUE: run as __main__, signal_handler installed
    proc,            \* "alive" | "exited": the operating-system process
    running,         \* self.running
    producer_closed, \* self.producer.close() was called
    last_processed,  \* self.last_processed
    pc,              \* position of each thread
    conn,            \* local conn of monitor_orders: "none" | "open" | "closed"
    orders,          \* local orders of monitor_orders: the fetched batch
    idx,             \* position of the for loop in orders
    event_type,      \* local event_type of monitor_orders
    inflight,        \* the event producer.send returned a future for: <<>> or <<event>>
    published,       \* every event handed to the sink, with its outcome
    faults,          \* source and sink failures still to come
    wm_start,        \* history: orders watermark when the cycle started
    cycle_sent,      \* history: events handed to the sink in this cycle
    cycle_result,    \* history: how the current or last cycle ended
    prev_unacked,    \* history: ids the last sink-aborted batch left unacknowledged
    reachable,       \* environment: [source, sink] answer a connection attempt
    restarts,        \* environment: times the process was started again
    peer,            \* the inventory, price and customer loops: thread -> locals
    loader,          \* loadDataToSnowflake.py: the state of one run of main
    seed             \* seed_data.py: the state of one call of a seed function

vars == <<orders_table, handlers, proc, running, producer_closed,
          last_processed, pc, conn, orders, idx, event_type, inflight,
          published, faults, wm_start, cycle_sent, cycle_result,
          prev_unacked, reachable, restarts, peer, loader, seed>>

\* Python's None, as an event type and as a timestamp
None == "None"
NoTimestamp == -1

\* ---------------------------------------------------------------- bounds
MaxRows == 3
MaxTicks == 2
MaxFaults == 1
MaxTime == 125
MaxExtra == 1
MaxRun == 2

\* ------------------------------------------------------ program constants
LIMIT == 100
NEW_ORDER_SECONDS == 60

Min(a, b) == IF a < b THEN a ELSE b

status_map ==
    [s \in {"PENDING", "CONFIRMED", "SHIPPED", "DELIVERED", "CANCELLED"} |->
        CASE s = "PENDING" -> "created"
          [] s = "CONFIRMED" -> "confirmed"
          [] s = "SHIPPED" -> "shipped"
          [] s = "DELIVERED" -> "delivered"
          [] s = "CANCELLED" -> "cancelled"]

Abs(x) == IF x < 0 THEN -x ELSE x

\* mutant: the status table is consulted before the recency test
determine_StatusFirst(order) ==
    IF order.order_status \in DOMAIN status_map
    THEN status_map[order.order_status]
    ELSE IF Abs(order.updated_at - order.created_at) < NEW_ORDER_SECONDS
         THEN "created"
         ELSE "updated"

\* mutant: the recency test is <= 60 instead of < 60
determine_InclusiveWindow(order) ==
    IF Abs(order.updated_at - order.created_at) <= NEW_ORDER_SECONDS
    THEN "created"
    ELSE IF order.order_status \in DOMAIN status_map
         THEN status_map[order.order_status]
         ELSE "updated"

\* mutant: status_map.get(order_status) without the default
determine_NoDefault(order) ==
    IF Abs(order.updated_at - order.created_at) < NEW_ORDER_SECONDS
    THEN "created"
    ELSE IF order.order_status \in DOMAIN status_map
         THEN status_map[order.order_status]
         ELSE None

\* mutant: status_map.get(order_status, order_status)
determine_StatusAsDefault(order) ==
    IF Abs(order.updated_at - order.created_at) < NEW_ORDER_SECONDS
    THEN "created"
    ELSE IF order.order_status \in DOMAIN status_map
         THEN status_map[order.order_status]
         ELSE order.order_status

\* EventProducer._determine_order_event_type
_determine_order_event_type(order) ==
    IF Abs(order.updated_at - order.created_at) < NEW_ORDER_SECONDS
    THEN "created"
    ELSE IF order.order_status \in DOMAIN status_map
         THEN status_map[order.order_status]
         ELSE "updated"

\* OrderEvent(...) of monitor_orders: the fields the claims read
OrderEvent(order, etype) ==
    [order_id |-> order.order_id,
     event_type |-> etype,
     order_status |-> order.order_status,
     timestamp |-> order.updated_at]

\* ---------------------------------------------------- the source query
\* mutant: WHERE updated_at >= '<watermark>'
where_clause_Inclusive(w) == {i \in DOMAIN orders_table : w = NoTimestamp \/ orders_table[i].updated_at >= w}

\* WHERE updated_at > '<watermark>' ; no clause when the watermark is None
where_clause(w) == {i \in DOMAIN orders_table : w = NoTimestamp \/ orders_table[i].updated_at > w}

\* ORDER BY updated_at ASC.  SQL leaves the order of rows with equal
\* updated_at unspecified: desc chooses between two tie orders.
Before(a, b, desc) ==
    \/ orders_table[a].updated_at < orders_table[b].updated_at
    \/ /\ orders_table[a].updated_at = orders_table[b].updated_at
       /\ IF desc THEN a > b ELSE a < b

\* mutant: ORDER BY updated_at DESC
OrderBy_Descending(S, desc) ==
    [k \in 1..Cardinality(S) |->
        CHOOSE i \in S : Cardinality({j \in S : Before(i, j, desc)}) = k - 1]

OrderBy(S, desc) ==
    [k \in 1..Cardinality(S) |->
        CHOOSE i \in S : Cardinality({j \in S : Before(j, i, desc)}) = k - 1]

\* mutant: the query has no LIMIT clause
fetchall_NoLimit(w, desc) ==
    LET ids == OrderBy(where_clause(w), desc)
    IN [k \in 1..Len(ids) |-> orders_table[ids[k]]]

\* cursor.execute(query); cursor.fetchall()
fetchall(w, desc) ==
    LET ids == OrderBy(where_clause(w), desc)
        n == Min(Len(ids), LIMIT)
    IN [k \in 1..n |-> orders_table[ids[k]]]

\* ------------------------------------------------------------ initial state
Statuses == {"SHIPPED", "COMPLETED"}

\* modification times lie half a new-order window apart: the first is
\* inside the window of a row created at 0, the later ones are outside
OrderTimes == {k * (NEW_ORDER_SECONDS \div 2) : k \in 1..MaxTicks}

RowShapes == [updated_at : OrderTimes, order_status : Statuses]

MakeRow(i, sh) ==
    [order_id |-> i,
     created_at |-> 0,
     updated_at |-> sh.updated_at,
     order_status |-> sh.order_status]

\* order_id is only the identity of a row: the rows are numbered by
\* ascending updated_at, which loses no behaviour up to a renaming of the
\* ids (rows with equal updated_at are fetched in either order)
Tables == UNION {{t \in {[i \in 1..n |-> MakeRow(i, f[i])] : f \in [1..n -> RowShapes]} :
                    \A i \in 1..(n - 1) : t[i].updated_at <= t[i + 1].updated_at} :
                  n \in 1..MaxRows}

\* EventProducer.__init__ followed by start_monitoring up to its loop
\* loadDataToSnowflake.py and seed_data.py are separate scripts: while
\* EventProducer.py is modelled they have not been run
LoaderIdle == [pc |-> "not_run"]
SeedIdle == [pc |-> "not_run"]

\* the threads of monitor_inventory, monitor_prices, simulate_customer_events
Peers == {"inventory_monitor", "price_monitor", "customer_events"}

\* locals of a peer loop: its position, the rows of its batch still to
\* handle, and how its current or last cycle ended
PeerNotStarted == [pc |-> "not_started", todo |-> 0, result |-> "none"]

\* The state after EventProducer() and the thread start of start_monitoring,
\* restricted to the orders loop: the peer loops are left out.
Init ==
    /\ orders_table \in Tables
    /\ handlers \in BOOLEAN
    /\ proc = "alive"
    /\ running = TRUE
    /\ producer_closed = FALSE
    /\ last_processed = [orders |-> NoTimestamp, products |-> NoTimestamp, customers |-> NoTimestamp]
    /\ pc = [order_monitor |-> "while", MainThread |-> "sleep"]
    /\ conn = "none"
    /\ orders = <<>>
    /\ idx = 1
    /\ event_type = None
    /\ inflight = <<>>
    /\ published = <<>>
    /\ faults = MaxFaults
    /\ wm_start = NoTimestamp
    /\ cycle_sent = 0
    /\ cycle_result = "none"
    /\ prev_unacked = {}
    /\ reachable = [source |-> TRUE, sink |-> TRUE]
    /\ restarts = 0
    /\ loader = LoaderIdle
    /\ seed = SeedIdle
    /\ peer = [t \in Peers |-> PeerNotStarted]

\* ------------------------------------------------- monitor_orders, one cycle
Alive == proc = "alive"
OM == "order_monitor"

Goto(t, l) == pc' = [pc EXCEPT ![t] = l]

\* mutant: the exception is not caught inside the while loop and ends the thread
Abort_Fatal(kind) ==
    /\ Goto(OM, "returned")
    /\ cycle_result' = kind
    /\ faults' = faults - 1

\* except Exception as e: logger.error(...)  -- the cycle is aborted
Abort(kind) ==
    /\ Goto(OM, "sleep")
    /\ cycle_result' = kind
    /\ faults' = faults - 1

\* the records of the current batch that were not acknowledged
Unacked == {orders[k].order_id : k \in idx..Len(orders)}

\* while self.running:  (true)
CycleStart ==
    /\ Alive /\ pc[OM] = "while" /\ running
    /\ Goto(OM, "connect")
    /\ wm_start' = last_processed["orders"]
    /\ cycle_sent' = 0
    /\ cycle_result' = "in_flight"
    /\ UNCHANGED <<orders_table, handlers, proc, running, producer_closed,
                   last_processed, conn, orders, idx, event_type, inflight,
                   published, faults>>
    /\ UNCHANGED prev_unacked
    /\ UNCHANGED <<reachable, restarts, peer, loader, seed>>

\* while self.running:  (false) -- monitor_orders returns
LoopExit ==
    /\ Alive /\ pc[OM] = "while" /\ ~running
    /\ Goto(OM, "returned")
    /\ UNCHANGED <<orders_table, handlers, proc, running, producer_closed,
                   last_processed, conn, orders, idx, event_type, inflight,
                   published, faults, wm_start, cycle_sent, cycle_result>>
    /\ UNCHANGED prev_unacked
    /\ UNCHANGED <<reachable, restarts, peer, loader, seed>>

\* conn = self.get_db_connection()
Connect ==
    /\ Alive /\ pc[OM] = "connect" /\ reachable.source
    /\ conn' = "open"
    /\ Goto(OM, "query")
    /\ UNCHANGED <<orders_table, handlers, proc, running, producer_closed,
                   last_processed, orders, idx, event_type, inflight,
                   published, faults, wm_start, cycle_sent, cycle_result>>
    /\ UNCHANGED prev_unacked
    /\ UNCHANGED <<reachable, restarts, peer, loader, seed>>

\* psycopg2.connect raises: logged and re-raised by get_db_connection
ConnectFail ==
    /\ Alive /\ pc[OM] = "connect" /\ faults > 0
    /\ Abort("source_error")
    /\ UNCHANGED <<orders_table, handlers, proc, running, producer_closed,
                   last_processed, conn, orders, idx, event_type, inflight,
                   published, wm_start, cycle_sent>>
    /\ UNCHANGED prev_unacked
    /\ UNCHANGED <<reachable, restarts, peer, loader, seed>>

\* cursor.execute(query); orders = cursor.fetchall(); for order in orders
Query ==
    /\ Alive /\ pc[OM] = "query"
    /\ \E desc \in BOOLEAN : orders' = fetchall(last_processed["orders"], desc)
    /\ idx' = 1
    /\ Goto(OM, "for")
    /\ UNCHANGED <<orders_table, handlers, proc, running, producer_closed,
                   last_processed, conn, event_type, inflight,
                   published, faults, wm_start, cycle_sent, cycle_result>>
    /\ UNCHANGED prev_unacked
    /\ UNCHANGED <<reachable, restarts, peer, loader, seed>>

\* cursor.execute raises
QueryFail ==
    /\ Alive /\ pc[OM] = "query" /\ faults > 0
    /\ Abort("source_error")
    /\ UNCHANGED <<orders_table, handlers, proc, running, producer_closed,
                   last_processed, conn, orders, idx, event_type, inflight,
                   published, wm_start, cycle_sent>>
    /\ UNCHANGED prev_unacked
    /\ UNCHANGED <<reachable, restarts, peer, loader, seed>>

\* mutant: status_map[order_status] raises KeyError for a status outside the
\* table, so the record cannot be sent
Send_KeyError ==
    /\ Alive /\ pc[OM] = "for" /\ idx <= Len(orders) /\ ~producer_closed
    /\ orders[idx].order_status \in DOMAIN status_map
    /\ event_type' = _determine_order_event_type(orders[idx])
    /\ inflight' = <<OrderEvent(orders[idx], event_type')>>
    /\ cycle_sent' = cycle_sent + 1
    /\ Goto(OM, "future_get")
    /\ UNCHANGED <<orders_table, handlers, proc, running, producer_closed,
                   last_processed, conn, orders, idx,
                   published, faults, wm_start, cycle_result>>
    /\ UNCHANGED prev_unacked
    /\ UNCHANGED <<reachable, restarts, peer, loader, seed>>

\* mutant: send_event does not wait on the future; the for loop goes on
Send_NoWait ==
    /\ Alive /\ pc[OM] = "for" /\ idx <= Len(orders) /\ ~producer_closed
    /\ event_type' = _determine_order_event_type(orders[idx])
    /\ inflight' = Append(inflight, OrderEvent(orders[idx], event_type'))
    /\ cycle_sent' = cycle_sent + 1
    /\ idx' = idx + 1
    /\ UNCHANGED <<orders_table, handlers, proc, running, producer_closed,
                   last_processed, pc, conn, orders,
                   published, faults, wm_start, cycle_result>>
    /\ UNCHANGED prev_unacked
    /\ UNCHANGED <<reachable, restarts, peer, loader, seed>>

\* event_type = self._determine_order_event_type(order); OrderEvent(...);
\* send_event: future = self.producer.send(topic, value=event_data)
Send ==
    /\ Alive /\ pc[OM] = "for" /\ idx <= Len(orders) /\ ~producer_closed
    /\ event_type' = _determine_order_event_type(orders[idx])
    /\ inflight' = <<OrderEvent(orders[idx], event_type')>>
    /\ cycle_sent' = cycle_sent + 1
    /\ Goto(OM, "future_get")
    /\ UNCHANGED <<orders_table, handlers, proc, running, producer_closed,
                   last_processed, conn, orders, idx,
                   published, faults, wm_start, cycle_result>>
    /\ UNCHANGED prev_unacked
    /\ UNCHANGED <<reachable, restarts, peer, loader, seed>>

\* self.producer.send raises KafkaError: the sink is unreachable
SendFail ==
    /\ Alive /\ pc[OM] = "for" /\ idx <= Len(orders) /\ ~producer_closed
    /\ faults > 0
    /\ event_type' = _determine_order_event_type(orders[idx])
    /\ published' = Append(published,
                           [event |-> OrderEvent(orders[idx], event_type'),
                            acked |-> FALSE])
    /\ cycle_sent' = cycle_sent + 1
    /\ Abort("sink_error")
    /\ UNCHANGED <<orders_table, handlers, proc, running, producer_closed,
                   last_processed, conn, orders, idx, inflight, wm_start>>
    /\ prev_unacked' = Unacked
    /\ UNCHANGED <<reachable, restarts, peer, loader, seed>>

\* self.producer.send on a producer that shutdown() has closed raises
SendClosed ==
    /\ Alive /\ pc[OM] = "for" /\ idx <= Len(orders) /\ producer_closed
    /\ event_type' = _determine_order_event_type(orders[idx])
    /\ published' = Append(published,
                           [event |-> OrderEvent(orders[idx], event_type'),
                            acked |-> FALSE])
    /\ cycle_sent' = cycle_sent + 1
    /\ Goto(OM, "sleep")
    /\ cycle_result' = "sink_error"
    /\ UNCHANGED <<orders_table, handlers, proc, running, producer_closed,
                   last_processed, conn, orders, idx, inflight, faults,
                   wm_start>>
    /\ prev_unacked' = Unacked
    /\ UNCHANGED <<reachable, restarts, peer, loader, seed>>

\* mutant: the for loop steps over the record that follows an acknowledged one
Ack_SkipsNext ==
    /\ Alive /\ pc[OM] = "future_get"
    /\ published' = Append(published, [event |-> inflight[1], acked |-> TRUE])
    /\ inflight' = <<>>
    /\ last_processed' = [last_processed EXCEPT !["orders"] = orders[idx].updated_at]
    /\ idx' = idx + 2
    /\ Goto(OM, "for")
    /\ UNCHANGED <<orders_table, handlers, proc, running, producer_closed,
                   conn, orders, event_type, faults, wm_start, cycle_sent,
                   cycle_result>>
    /\ prev_unacked' = {}
    /\ UNCHANGED <<reachable, restarts, peer, loader, seed>>

\* mutant: the watermark is assigned once, after the last record of the batch
Ack_WatermarkAtBatchEnd ==
    /\ Alive /\ pc[OM] = "future_get"
    /\ published' = Append(published, [event |-> inflight[1], acked |-> TRUE])
    /\ inflight' = <<>>
    /\ last_processed' = IF idx = Len(orders)
                          THEN [last_processed EXCEPT !["orders"] = orders[idx].updated_at]
                          ELSE last_processed
    /\ idx' = idx + 1
    /\ Goto(OM, "for")
    /\ UNCHANGED <<orders_table, handlers, proc, running, producer_closed,
                   conn, orders, event_type, faults, wm_start, cycle_sent,
                   cycle_result>>
    /\ prev_unacked' = {}
    /\ UNCHANGED <<reachable, restarts, peer, loader, seed>>

\* future.get(timeout=10) returns; self.last_processed['orders'] = order[12]
Ack ==
    /\ Alive /\ pc[OM] = "future_get"
    /\ published' = Append(published, [event |-> inflight[1], acked |-> TRUE])
    /\ inflight' = <<>>
    /\ last_processed' = [last_processed EXCEPT !["orders"] = orders[idx].updated_at]
    /\ idx' = idx + 1
    /\ Goto(OM, "for")
    /\ UNCHANGED <<orders_table, handlers, proc, running, producer_closed,
                   conn, orders, event_type, faults, wm_start, cycle_sent,
                   cycle_result>>
    /\ prev_unacked' = {}
    /\ UNCHANGED <<reachable, restarts, peer, loader, seed>>

\* mutant: send_event swallows the KafkaError and the for loop goes on
AckFail_Continue ==
    /\ Alive /\ pc[OM] = "future_get" /\ faults > 0
    /\ published' = Append(published, [event |-> inflight[1], acked |-> FALSE])
    /\ inflight' = <<>>
    /\ idx' = idx + 1
    /\ faults' = faults - 1
    /\ Goto(OM, "for")
    /\ UNCHANGED <<orders_table, handlers, proc, running, producer_closed,
                   last_processed, conn, orders, event_type, wm_start,
                   cycle_sent, cycle_result>>
    /\ prev_unacked' = Unacked
    /\ UNCHANGED <<reachable, restarts, peer, loader, seed>>

\* mutant: the watermark is assigned before the acknowledgement is awaited,
\* so a failed publish has advanced it
AckFail_WatermarkAssigned ==
    /\ Alive /\ pc[OM] = "future_get" /\ faults > 0
    /\ published' = Append(published, [event |-> inflight[1], acked |-> FALSE])
    /\ inflight' = <<>>
    /\ last_processed' = [last_processed EXCEPT !["orders"] = orders[idx].updated_at]
    /\ Abort("sink_error")
    /\ UNCHANGED <<orders_table, handlers, proc, running, producer_closed,
                   conn, orders, idx, event_type, wm_start,
                   cycle_sent>>
    /\ prev_unacked' = Unacked
    /\ UNCHANGED <<reachable, restarts, peer, loader, seed>>

\* future.get(timeout=10) raises KafkaError: failed send or no acknowledgement
AckFail ==
    /\ Alive /\ pc[OM] = "future_get" /\ faults > 0
    /\ published' = Append(published, [event |-> inflight[1], acked |-> FALSE])
    /\ inflight' = <<>>
    /\ Abort("sink_error")
    /\ UNCHANGED <<orders_table, handlers, proc, running, producer_closed,
                   last_processed, conn, orders, idx, event_type, wm_start,
                   cycle_sent>>
    /\ prev_unacked' = Unacked
    /\ UNCHANGED <<reachable, restarts, peer, loader, seed>>

\* the for loop is exhausted: conn.close()
Close ==
    /\ Alive /\ pc[OM] = "for" /\ idx > Len(orders)
    /\ conn' = "closed"
    /\ cycle_result' = "completed"
    /\ Goto(OM, "sleep")
    /\ UNCHANGED <<orders_table, handlers, proc, running, producer_closed,
                   last_processed, orders, idx, event_type, inflight,
                   published, faults, wm_start, cycle_sent>>
    /\ prev_unacked' = {}
    /\ UNCHANGED <<reachable, restarts, peer, loader, seed>>

\* mutant: the except clause is followed by a break
Sleep_BreakAfterError ==
    /\ Alive /\ pc[OM] = "sleep"
    /\ Goto(OM, IF cycle_result = "completed" THEN "while" ELSE "returned")
    /\ UNCHANGED <<orders_table, handlers, proc, running, producer_closed,
                   last_processed, conn, orders, idx, event_type, inflight,
                   published, faults, wm_start, cycle_sent, cycle_result>>
    /\ UNCHANGED prev_unacked
    /\ UNCHANGED <<reachable, restarts, peer, loader, seed>>

\* time.sleep(5)
Sleep ==
    /\ Alive /\ pc[OM] = "sleep"
    /\ Goto(OM, "while")
    /\ UNCHANGED <<orders_table, handlers, proc, running, producer_closed,
                   last_processed, conn, orders, idx, event_type, inflight,
                   published, faults, wm_start, cycle_sent, cycle_result>>
    /\ UNCHANGED prev_unacked
    /\ UNCHANGED <<reachable, restarts, peer, loader, seed>>

\* ------------------------------------------- main thread, signals, shutdown
MT == "MainThread"

\* SIGINT or SIGTERM with signal_handler installed: sys.exit(0) raises
\* SystemExit in the main thread, which start_monitoring does not catch;
\* the interpreter exits and the daemon threads die where they are.
signal_handler ==
    /\ Alive /\ handlers /\ pc[MT] = "sleep"
    /\ proc' = "exited"
    /\ UNCHANGED <<orders_table, handlers, running, producer_closed,
                   last_processed, pc, conn, orders, idx, event_type, inflight,
                   published, faults, wm_start, cycle_sent, cycle_result,
                   prev_unacked>>
    /\ UNCHANGED <<reachable, restarts, peer, loader, seed>>

\* SIGINT with the default handler: except KeyboardInterrupt in
\* start_monitoring
KeyboardInterrupt ==
    /\ Alive /\ ~handlers /\ pc[MT] = "sleep"
    /\ Goto(MT, "shutdown")
    /\ UNCHANGED <<orders_table, handlers, proc, running, producer_closed,
                   last_processed, conn, orders, idx, event_type, inflight,
                   published, faults, wm_start, cycle_sent, cycle_result,
                   prev_unacked>>
    /\ UNCHANGED <<reachable, restarts, peer, loader, seed>>

\* shutdown: self.running = False
shutdown ==
    /\ Alive /\ pc[MT] = "shutdown"
    /\ running' = FALSE
    /\ Goto(MT, "producer_close")
    /\ UNCHANGED <<orders_table, handlers, proc, producer_closed,
                   last_processed, conn, orders, idx, event_type, inflight,
                   published, faults, wm_start, cycle_sent, cycle_result,
                   prev_unacked>>
    /\ UNCHANGED <<reachable, restarts, peer, loader, seed>>

\* shutdown: self.producer.close()
producer_close ==
    /\ Alive /\ pc[MT] = "producer_close"
    /\ producer_closed' = TRUE
    /\ Goto(MT, "return")
    /\ UNCHANGED <<orders_table, handlers, proc, running,
                   last_processed, conn, orders, idx, event_type, inflight,
                   published, faults, wm_start, cycle_sent, cycle_result,
                   prev_unacked>>
    /\ UNCHANGED <<reachable, restarts, peer, loader, seed>>

\* start_monitoring returns, the script ends: the interpreter exits without
\* joining the daemon threads
MainReturn ==
    /\ Alive /\ pc[MT] = "return"
    /\ proc' = "exited"
    /\ UNCHANGED <<orders_table, handlers, running, producer_closed,
                   last_processed, pc, conn, orders, idx, event_type, inflight,
                   published, faults, wm_start, cycle_sent, cycle_result,
                   prev_unacked>>
    /\ UNCHANGED <<reachable, restarts, peer, loader, seed>>

Next ==
    \/ CycleStart \/ LoopExit \/ Connect \/ ConnectFail \/ Query \/ QueryFail
    \/ Send \/ SendFail \/ SendClosed \/ Ack \/ AckFail \/ Close \/ Sleep
    \/ signal_handler \/ KeyboardInterrupt \/ shutdown \/ producer_close
    \/ MainReturn

Spec == Init /\ [][Next]_vars

\* ------------------------------------ the orders loop alone, kept scheduled
\* No signal arrives; the thread of monitor_orders is scheduled fairly; the
\* source and the sink fail at most faults times.
OrdersCycle ==
    \/ CycleStart \/ Connect \/ ConnectFail \/ Query \/ QueryFail
    \/ Send \/ SendFail \/ Ack \/ AckFail \/ Close \/ Sleep

LiveSpec == Init /\ [][OrdersCycle]_vars /\ WF_vars(OrdersCycle)

\* ------------------------- the orders loop on a table larger than one batch
\* The table has LIMIT+1 .. LIMIT+MaxExtra rows, in runs of 1..MaxRun equal
\* modification times one second apart; the source and the sink do not fail.
BulkRow(i, g) ==
    [order_id |-> i,
     created_at |-> 0,
     updated_at |-> (i + g - 1) \div g,
     order_status |-> "SHIPPED"]

BulkTables == {[i \in 1..n |-> BulkRow(i, g)] :
                 n \in (LIMIT + 1)..(LIMIT + MaxExtra), g \in 1..MaxRun}

BulkInit ==
    /\ orders_table \in BulkTables
    /\ handlers = TRUE
    /\ proc = "alive"
    /\ running = TRUE
    /\ producer_closed = FALSE
    /\ last_processed = [orders |-> NoTimestamp, products |-> NoTimestamp, customers |-> NoTimestamp]
    /\ pc = [order_monitor |-> "while", MainThread |-> "sleep"]
    /\ conn = "none"
    /\ orders = <<>>
    /\ idx = 1
    /\ event_type = None
    /\ inflight = <<>>
    /\ published = <<>>
    /\ faults = 0
    /\ wm_start = NoTimestamp
    /\ cycle_sent = 0
    /\ cycle_result = "none"
    /\ prev_unacked = {}
    /\ reachable = [source |-> TRUE, sink |-> TRUE]
    /\ restarts = 0
    /\ loader = LoaderIdle
    /\ seed = SeedIdle
    /\ peer = [t \in Peers |-> PeerNotStarted]

BulkNext == CycleStart \/ Connect \/ Query \/ Send \/ Ack \/ Close \/ Sleep

BulkSpec == BulkInit /\ [][BulkNext]_vars

\* ------------------------------- the whole process, from EventProducer() on
\* __main__ without a signal: EventProducer(), start_monitoring, the four
\* loops.  The source or the sink may be unreachable from the start; the
\* orders table has one row.
MaxPeerBatch == 1

\* LIMIT of the queries of monitor_inventory, monitor_prices and
\* simulate_customer_events
PeerLimit == [inventory_monitor |-> 10, price_monitor |-> 5, customer_events |-> 3]

\* mutant: the exception of KafkaProducer(...) is caught and construction
\* carries on
NoBrokersAvailable_Swallowed ==
    /\ Alive /\ pc[MT] = "__init__" /\ ~reachable.sink
    /\ last_processed' = [orders |-> NoTimestamp, products |-> NoTimestamp, customers |-> NoTimestamp]
    /\ running' = TRUE
    /\ Goto(MT, "start_monitoring")
    /\ UNCHANGED <<orders_table, handlers, proc, producer_closed,
                   conn, orders, idx, event_type, inflight,
                   published, faults, wm_start, cycle_sent, cycle_result,
                   prev_unacked, reachable, restarts, peer, loader, seed>>

\* EventProducer.__init__, KafkaProducer(...) finds no broker: it raises
\* NoBrokersAvailable, which nothing catches; the interpreter exits
NoBrokersAvailable ==
    /\ Alive /\ pc[MT] = "__init__" /\ ~reachable.sink
    /\ proc' = "exited"
    /\ UNCHANGED <<orders_table, handlers, running, producer_closed,
                   last_processed, pc, conn, orders, idx, event_type, inflight,
                   published, faults, wm_start, cycle_sent, cycle_result,
                   prev_unacked, reachable, restarts, peer, loader, seed>>

\* EventProducer.__init__, KafkaProducer(...) reaches a broker; no connection
\* to the source is made
__init__ ==
    /\ Alive /\ pc[MT] = "__init__" /\ reachable.sink
    /\ last_processed' = [orders |-> NoTimestamp, products |-> NoTimestamp, customers |-> NoTimestamp]
    /\ running' = TRUE
    /\ Goto(MT, "start_monitoring")
    /\ UNCHANGED <<orders_table, handlers, proc, producer_closed,
                   conn, orders, idx, event_type, inflight,
                   published, faults, wm_start, cycle_sent, cycle_result,
                   prev_unacked, reachable, restarts, peer, loader, seed>>

\* start_monitoring: the four daemon threads are started, the main thread
\* goes to its sleep loop
start_monitoring ==
    /\ Alive /\ pc[MT] = "start_monitoring"
    /\ pc' = [pc EXCEPT ![OM] = "while", ![MT] = "sleep"]
    /\ peer' = [t \in Peers |-> [peer[t] EXCEPT !.pc = "while"]]
    /\ UNCHANGED <<orders_table, handlers, proc, running, producer_closed,
                   last_processed, conn, orders, idx, event_type, inflight,
                   published, faults, wm_start, cycle_sent, cycle_result,
                   prev_unacked, reachable, restarts, loader, seed>>

\* conn = self.get_db_connection() with the source unreachable:
\* psycopg2.connect raises, get_db_connection logs and re-raises, the except
\* clause of the loop logs
ConnectUnreachable ==
    /\ Alive /\ pc[OM] = "connect" /\ ~reachable.source
    /\ Goto(OM, "sleep")
    /\ cycle_result' = "source_error"
    /\ UNCHANGED <<orders_table, handlers, proc, running, producer_closed,
                   last_processed, conn, orders, idx, event_type, inflight,
                   published, faults, wm_start, cycle_sent,
                   prev_unacked, reachable, restarts, peer, loader, seed>>

\* a step of peer loop t: only the locals of t change
PeerStep(t, l, n, r) ==
    /\ peer' = [peer EXCEPT ![t] = [pc |-> l, todo |-> n, result |-> r]]
    /\ UNCHANGED <<orders_table, handlers, proc, running, producer_closed,
                   last_processed, pc, conn, orders, idx, event_type, inflight,
                   published, faults, wm_start, cycle_sent, cycle_result,
                   prev_unacked, reachable, restarts, loader, seed>>

\* mutant: a failed publish of a peer loop clears the orders watermark
PeerSendFail_ClearsWatermark(t) ==
    /\ Alive /\ peer[t].pc = "for" /\ peer[t].todo > 0
    /\ peer' = [peer EXCEPT ![t] = [pc |-> "sleep", todo |-> peer[t].todo, result |-> "sink_error"]]
    /\ last_processed' = [last_processed EXCEPT !["orders"] = NoTimestamp]
    /\ UNCHANGED <<orders_table, handlers, proc, running, producer_closed,
                   pc, conn, orders, idx, event_type, inflight,
                   published, faults, wm_start, cycle_sent, cycle_result,
                   prev_unacked, reachable, restarts, loader, seed>>

\* while self.running:  (true)
PeerCycleStart(t) ==
    /\ Alive /\ peer[t].pc = "while" /\ running
    /\ PeerStep(t, "connect", 0, "in_flight")

\* conn = self.get_db_connection(); cursor = conn.cursor()
PeerConnect(t) ==
    /\ Alive /\ peer[t].pc = "connect" /\ reachable.source
    /\ PeerStep(t, "query", 0, "in_flight")

\* psycopg2.connect raises: except Exception, logged
PeerConnectFail(t) ==
    /\ Alive /\ peer[t].pc = "connect"
    /\ PeerStep(t, "sleep", 0, "source_error")

\* cursor.execute(... LIMIT n); cursor.fetchall()
PeerQuery(t) ==
    /\ Alive /\ peer[t].pc = "query"
    /\ \E n \in 0..Min(PeerLimit[t], MaxPeerBatch) : PeerStep(t, "for", n, "in_flight")

\* cursor.execute raises: except Exception, logged
PeerQueryFail(t) ==
    /\ Alive /\ peer[t].pc = "query"
    /\ PeerStep(t, "sleep", 0, "source_error")

\* one row of the batch: its event is sent and acknowledged (the price loop
\* sends none when its time test or its price test fails)
PeerSend(t) ==
    /\ Alive /\ peer[t].pc = "for" /\ peer[t].todo > 0
    /\ PeerStep(t, "for", peer[t].todo - 1, "in_flight")

\* send_event raises KafkaError: except Exception, logged
PeerSendFail(t) ==
    /\ Alive /\ peer[t].pc = "for" /\ peer[t].todo > 0
    /\ PeerStep(t, "sleep", peer[t].todo, "sink_error")

\* the for loop is over: conn.close()
PeerClose(t) ==
    /\ Alive /\ peer[t].pc = "for" /\ peer[t].todo = 0
    /\ PeerStep(t, "sleep", 0, "completed")

\* time.sleep(10), time.sleep(15), time.sleep(8)
PeerSleep(t) ==
    /\ Alive /\ peer[t].pc = "sleep"
    /\ PeerStep(t, "while", peer[t].todo, peer[t].result)

StartTables == {t \in Tables : Len(t) = 1}

\* the process before EventProducer(): no attribute is assigned yet
StartInit ==
    /\ orders_table \in StartTables
    /\ handlers = TRUE
    /\ proc = "alive"
    /\ running = FALSE
    /\ producer_closed = FALSE
    /\ last_processed = [orders |-> NoTimestamp, products |-> NoTimestamp, customers |-> NoTimestamp]
    /\ pc = [order_monitor |-> "not_started", MainThread |-> "__init__"]
    /\ conn = "none"
    /\ orders = <<>>
    /\ idx = 1
    /\ event_type = None
    /\ inflight = <<>>
    /\ published = <<>>
    /\ faults = MaxFaults
    /\ wm_start = NoTimestamp
    /\ cycle_sent = 0
    /\ cycle_result = "none"
    /\ prev_unacked = {}
    /\ reachable \in [source : BOOLEAN, sink : BOOLEAN]
    /\ restarts = 0
    /\ loader = LoaderIdle
    /\ seed = SeedIdle
    /\ peer = [t \in Peers |-> PeerNotStarted]

StartNext ==
    \/ __init__ \/ NoBrokersAvailable \/ start_monitoring
    \/ OrdersCycle \/ ConnectUnreachable
    \/ \E t \in Peers :
         \/ PeerCycleStart(t) \/ PeerConnect(t) \/ PeerConnectFail(t)
         \/ PeerQuery(t) \/ PeerQueryFail(t) \/ PeerSend(t)
         \/ PeerSendFail(t) \/ PeerClose(t) \/ PeerSleep(t)

StartSpec == StartInit /\ [][StartNext]_vars

\* ------------------------------------ the orders loop across process restarts
\* The process runs as __main__, is ended by a signal and is started again,
\* at most MaxRestarts times.  The orders table and what the sink received
\* outlive the process; nothing else does.
MaxRestarts == 1

\* mutant: the watermark survives the restart
Restart_KeepsWatermark ==
    /\ proc = "exited" /\ restarts < MaxRestarts
    /\ restarts' = restarts + 1
    /\ proc' = "alive"
    /\ running' = TRUE
    /\ producer_closed' = FALSE
    /\ pc' = [order_monitor |-> "while", MainThread |-> "sleep"]
    /\ conn' = "none"
    /\ orders' = <<>>
    /\ idx' = 1
    /\ event_type' = None
    /\ inflight' = <<>>
    /\ wm_start' = NoTimestamp
    /\ cycle_sent' = 0
    /\ cycle_result' = "none"
    /\ prev_unacked' = {}
    /\ UNCHANGED last_processed
    /\ UNCHANGED <<orders_table, handlers, published, faults, reachable, peer, loader, seed>>

\* the script is run again: EventProducer() assigns every attribute anew,
\* start_monitoring starts the threads
Restart ==
    /\ proc = "exited" /\ restarts < MaxRestarts
    /\ restarts' = restarts + 1
    /\ proc' = "alive"
    /\ running' = TRUE
    /\ producer_closed' = FALSE
    /\ pc' = [order_monitor |-> "while", MainThread |-> "sleep"]
    /\ conn' = "none"
    /\ orders' = <<>>
    /\ idx' = 1
    /\ event_type' = None
    /\ inflight' = <<>>
    /\ wm_start' = NoTimestamp
    /\ cycle_sent' = 0
    /\ cycle_result' = "none"
    /\ prev_unacked' = {}
    /\ last_processed' = [orders |-> NoTimestamp, products |-> NoTimestamp, customers |-> NoTimestamp]
    /\ UNCHANGED <<orders_table, handlers, published, faults, reachable, peer, loader, seed>>

RestartTables == {t \in Tables : Len(t) <= 2}

RestartInit ==
    /\ orders_table \in RestartTables
    /\ handlers = TRUE
    /\ proc = "alive"
    /\ running = TRUE
    /\ producer_closed = FALSE
    /\ last_processed = [orders |-> NoTimestamp, products |-> NoTimestamp, customers |-> NoTimestamp]
    /\ pc = [order_monitor |-> "while", MainThread |-> "sleep"]
    /\ conn = "none"
    /\ orders = <<>>
    /\ idx = 1
    /\ event_type = None
    /\ inflight = <<>>
    /\ published = <<>>
    /\ faults = MaxFaults
    /\ wm_start = NoTimestamp
    /\ cycle_sent = 0
    /\ cycle_result = "none"
    /\ prev_unacked = {}
    /\ reachable = [source |-> TRUE, sink |-> TRUE]
    /\ restarts = 0
    /\ loader = LoaderIdle
    /\ seed = SeedIdle
    /\ peer = [t \in Peers |-> PeerNotStarted]

RestartNext == OrdersCycle \/ signal_handler \/ Restart

RestartSpec == RestartInit /\ [][RestartNext]_vars

\* --------------------------------- the orders loop next to another loop
\* The threads of monitor_orders and monitor_inventory run side by side on
\* an orders table of two rows; no signal arrives.
OverlapPeers == {"inventory_monitor"}

OverlapTables == {t \in Tables : Len(t) = 2}

OverlapInit ==
    /\ orders_table \in OverlapTables
    /\ handlers = TRUE
    /\ proc = "alive"
    /\ running = TRUE
    /\ producer_closed = FALSE
    /\ last_processed = [orders |-> NoTimestamp, products |-> NoTimestamp, customers |-> NoTimestamp]
    /\ pc = [order_monitor |-> "while", MainThread |-> "sleep"]
    /\ conn = "none"
    /\ orders = <<>>
    /\ idx = 1
    /\ event_type = None
    /\ inflight = <<>>
    /\ published = <<>>
    /\ faults = MaxFaults
    /\ wm_start = NoTimestamp
    /\ cycle_sent = 0
    /\ cycle_result = "none"
    /\ prev_unacked = {}
    /\ reachable = [source |-> TRUE, sink |-> TRUE]
    /\ restarts = 0
    /\ loader = LoaderIdle
    /\ seed = SeedIdle
    /\ peer = [t \in Peers |-> IF t \in OverlapPeers
                                THEN [PeerNotStarted EXCEPT !.pc = "while"]
                                ELSE PeerNotStarted]

OverlapNext ==
    \/ OrdersCycle
    \/ \E t \in OverlapPeers :
         \/ PeerCycleStart(t) \/ PeerConnect(t) \/ PeerConnectFail(t)
         \/ PeerQuery(t) \/ PeerQueryFail(t) \/ PeerSend(t)
         \/ PeerSendFail(t) \/ PeerClose(t) \/ PeerSleep(t)

OverlapSpec == OverlapInit /\ [][OverlapNext]_vars

\* ------------------------------------ monitor_inventory, the events of a cycle
\* One cycle of the inventory loop from its query on, with the event of
\* every row recorded in published.  time.time() is a whole number of
\* seconds in 0..MaxNow (int() drops the fraction).
MaxNow == 120

STOCK_MODULUS == 100
STOCK_STEP == 5
REORDER_POINT == 20

Max(a, b) == IF a > b THEN a ELSE b

\* current_stock = max(0, int(time.time() % 100))
current_stock(now) == Max(0, now % STOCK_MODULUS)

\* mutant: the previous stock is five below the current one
previous_stock_Below(current) == current - STOCK_STEP

\* previous_stock = current_stock + 5
previous_stock(current) == current + STOCK_STEP

\* the if / elif / else on current_stock
inventory_event_type(current, previous, reorder) ==
    IF current < reorder THEN "low_stock_alert"
    ELSE IF current > previous THEN "restock"
    ELSE "stock_change"

InventoryEvent(product, now) ==
    LET current == current_stock(now)
        previous == previous_stock(current)
    IN [product_id |-> product,
        event_type |-> inventory_event_type(current, previous, REORDER_POINT),
        current_stock |-> current,
        previous_stock |-> previous,
        reorder_point |-> REORDER_POINT]

IM == "inventory_monitor"

\* one row of the batch: the InventoryEvent is built and
\* send_event('inventory', ...) returns
InventorySend ==
    /\ Alive /\ peer[IM].pc = "for" /\ peer[IM].todo > 0
    /\ \E now \in 0..MaxNow :
         published' = Append(published,
                             [event |-> InventoryEvent(peer[IM].todo, now), acked |-> TRUE])
    /\ peer' = [peer EXCEPT ![IM] = [pc |-> "for", todo |-> peer[IM].todo - 1, result |-> "in_flight"]]
    /\ UNCHANGED <<orders_table, handlers, proc, running, producer_closed,
                   last_processed, pc, conn, orders, idx, event_type, inflight,
                   faults, wm_start, cycle_sent, cycle_result,
                   prev_unacked, reachable, restarts, loader, seed>>

InventoryInit ==
    /\ orders_table = <<>>
    /\ handlers = TRUE
    /\ proc = "alive"
    /\ running = TRUE
    /\ producer_closed = FALSE
    /\ last_processed = [orders |-> NoTimestamp, products |-> NoTimestamp, customers |-> NoTimestamp]
    /\ pc = [order_monitor |-> "not_started", MainThread |-> "sleep"]
    /\ conn = "none"
    /\ orders = <<>>
    /\ idx = 1
    /\ event_type = None
    /\ inflight = <<>>
    /\ published = <<>>
    /\ faults = 0
    /\ wm_start = NoTimestamp
    /\ cycle_sent = 0
    /\ cycle_result = "none"
    /\ prev_unacked = {}
    /\ reachable = [source |-> TRUE, sink |-> TRUE]
    /\ restarts = 0
    /\ loader = LoaderIdle
    /\ seed = SeedIdle
    /\ peer = [t \in Peers |-> IF t = IM
                                THEN [pc |-> "query", todo |-> 0, result |-> "in_flight"]
                                ELSE PeerNotStarted]

InventoryNext == PeerQuery(IM) \/ InventorySend \/ PeerSendFail(IM) \/ PeerClose(IM)

InventorySpec == InventoryInit /\ [][InventoryNext]_vars

\* --------------------------- loadDataToSnowflake.py: one run of main()
\* The state of EventProducer.py, untouched by the two other scripts
producer_vars == <<orders_table, handlers, proc, running, producer_closed,
                   last_processed, pc, conn, orders, idx, event_type, inflight,
                   published, faults, wm_start, cycle_sent, cycle_result,
                   prev_unacked, reachable, restarts, peer>>

\* tables = ['customers', 'products', 'orders']
tables == <<"customers", "products", "orders">>

TableSet == {tables[k] : k \in DOMAIN tables}

\* for table in tables: the next iteration, or the statement after the loop
NextTable(i) == IF i < Len(tables) THEN "extract" ELSE "verify"

\* PostgreSQLToSnowflakeLoader() returned: both connections are open.  The
\* staging tables left in Snowflake by earlier runs are any subset.
LoaderInit ==
    /\ orders_table = <<>>
    /\ handlers = TRUE
    /\ proc = "alive"
    /\ running = FALSE
    /\ producer_closed = FALSE
    /\ last_processed = [orders |-> NoTimestamp, products |-> NoTimestamp, customers |-> NoTimestamp]
    /\ pc = [order_monitor |-> "not_started", MainThread |-> "not_started"]
    /\ conn = "none"
    /\ orders = <<>>
    /\ idx = 1
    /\ event_type = None
    /\ inflight = <<>>
    /\ published = <<>>
    /\ faults = 0
    /\ wm_start = NoTimestamp
    /\ cycle_sent = 0
    /\ cycle_result = "none"
    /\ prev_unacked = {}
    /\ reachable = [source |-> TRUE, sink |-> TRUE]
    /\ restarts = 0
    /\ peer = [t \in Peers |-> PeerNotStarted]
    /\ seed = SeedIdle
    /\ \E st \in SUBSET TableSet :
         loader = [pc |-> "extract", i |-> 1, extracted |-> {}, loaded |-> {},
                   failed |-> {}, staged |-> st, verified |-> FALSE,
                   success |-> FALSE, closed |-> FALSE, exit_code |-> 0]

\* df = self.extract_table_data(table): a DataFrame
extract_table_data ==
    /\ loader.pc = "extract"
    /\ loader' = [loader EXCEPT !.pc = "load",
                                 !.extracted = @ \cup {tables[loader.i]}]
    /\ UNCHANGED <<producer_vars, seed>>

\* extract_table_data catches the exception and returns None; run_full_load
\* logs "Failed to extract" and the for loop goes on
extract_table_data_None ==
    /\ loader.pc = "extract"
    /\ loader' = [loader EXCEPT !.pc = NextTable(loader.i),
                                 !.i = @ + 1,
                                 !.failed = @ \cup {tables[loader.i]}]
    /\ UNCHANGED <<producer_vars, seed>>

\* self.load_to_snowflake(table.upper(), df): the staging table is dropped,
\* created and filled
load_to_snowflake ==
    /\ loader.pc = "load"
    /\ loader' = [loader EXCEPT !.pc = NextTable(loader.i),
                                 !.i = @ + 1,
                                 !.loaded = @ \cup {tables[loader.i]},
                                 !.staged = @ \cup {tables[loader.i]}]
    /\ UNCHANGED <<producer_vars, seed>>

\* load_to_snowflake raises (before the DROP, between DROP and CREATE, or in
\* write_pandas); run_full_load logs and re-raises
load_to_snowflake_Raises ==
    /\ loader.pc = "load"
    /\ \E st \in {loader.staged, loader.staged \ {tables[loader.i]},
                   loader.staged \cup {tables[loader.i]}} :
         loader' = [loader EXCEPT !.pc = "except",
                                  !.failed = @ \cup {tables[loader.i]},
                                  !.staged = st]
    /\ UNCHANGED <<producer_vars, seed>>

\* self.verify_data_load(); logger.info("Data load completed successfully!")
verify_data_load ==
    /\ loader.pc = "verify" /\ TableSet \subseteq loader.staged
    /\ loader' = [loader EXCEPT !.pc = "finally", !.verified = TRUE, !.success = TRUE]
    /\ UNCHANGED <<producer_vars, seed>>

\* verify_data_load raises: a staging table does not exist, or a query fails
verify_data_load_Raises ==
    /\ loader.pc = "verify"
    /\ loader' = [loader EXCEPT !.pc = "except"]
    /\ UNCHANGED <<producer_vars, seed>>

\* main: except Exception: logger.error("Data load failed"); sys.exit(1)
LoaderExcept ==
    /\ loader.pc = "except"
    /\ loader' = [loader EXCEPT !.pc = "finally", !.exit_code = 1]
    /\ UNCHANGED <<producer_vars, seed>>

\* main: finally: loader.close_connections()
close_connections ==
    /\ loader.pc = "finally"
    /\ loader' = [loader EXCEPT !.pc = "exited", !.closed = TRUE]
    /\ UNCHANGED <<producer_vars, seed>>

LoaderNext ==
    \/ extract_table_data \/ extract_table_data_None
    \/ load_to_snowflake \/ load_to_snowflake_Raises
    \/ verify_data_load \/ verify_data_load_Raises
    \/ LoaderExcept \/ close_connections

LoaderSpec == LoaderInit /\ [][LoaderNext]_vars

\* ------------------------------- seed_data.py: one call of a seed function
\* seed_customers, seed_products and seed_orders share one shape: a for
\* loop of inserts on one connection, a commit every COMMIT_EVERY[fn]
\* records, rollback and continue on an exception, a commit after the loop.
\* A call inserts COMMIT_EVERY[fn] + MaxSeedExtra records, of which at most
\* one fails.
MaxSeedExtra == 1

COMMIT_EVERY == [seed_customers |-> 100, seed_products |-> 100, seed_orders |-> 200]

SeedInit ==
    /\ orders_table = <<>>
    /\ handlers = TRUE
    /\ proc = "alive"
    /\ running = FALSE
    /\ producer_closed = FALSE
    /\ last_processed = [orders |-> NoTimestamp, products |-> NoTimestamp, customers |-> NoTimestamp]
    /\ pc = [order_monitor |-> "not_started", MainThread |-> "not_started"]
    /\ conn = "none"
    /\ orders = <<>>
    /\ idx = 1
    /\ event_type = None
    /\ inflight = <<>>
    /\ published = <<>>
    /\ faults = 0
    /\ wm_start = NoTimestamp
    /\ cycle_sent = 0
    /\ cycle_result = "none"
    /\ prev_unacked = {}
    /\ reachable = [source |-> TRUE, sink |-> TRUE]
    /\ restarts = 0
    /\ peer = [t \in Peers |-> PeerNotStarted]
    /\ loader = LoaderIdle
    /\ \E fn \in DOMAIN COMMIT_EVERY :
         seed = [pc |-> "for", fn |-> fn, every |-> COMMIT_EVERY[fn],
                 num |-> COMMIT_EVERY[fn] + MaxSeedExtra, i |-> 0,
                 pending |-> {}, committed |-> {}, failed |-> {}]

\* cursor.execute(INSERT ...) of record i + 1;
\* if (i + 1) % 100 == 0: conn.commit()
SeedInsert ==
    /\ seed.pc = "for" /\ seed.i < seed.num
    /\ LET inserted == seed.pending \cup {seed.i + 1}
           commit == (seed.i + 1) % seed.every = 0
       IN seed' = [seed EXCEPT !.i = @ + 1,
                               !.pending = IF commit THEN {} ELSE inserted,
                               !.committed = IF commit THEN @ \cup inserted ELSE @]
    /\ UNCHANGED <<producer_vars, loader>>

\* the insert of record i + 1 raises: except Exception: conn.rollback();
\* continue
SeedInsertFails ==
    /\ seed.pc = "for" /\ seed.i < seed.num /\ seed.failed = {}
    /\ seed' = [seed EXCEPT !.i = @ + 1,
                            !.pending = {},
                            !.failed = {seed.i + 1}]
    /\ UNCHANGED <<producer_vars, loader>>

\* the for loop is over: conn.commit(); the function returns
SeedReturn ==
    /\ seed.pc = "for" /\ seed.i = seed.num
    /\ seed' = [seed EXCEPT !.pc = "returned",
                            !.pending = {},
                            !.committed = @ \cup seed.pending]
    /\ UNCHANGED <<producer_vars, loader>>

SeedNext == SeedInsert \/ SeedInsertFails \/ SeedReturn

SeedSpec == SeedInit /\ [][SeedNext]_vars

\* --------------------------- _determine_order_event_type on one record
ClassifyStatuses == DOMAIN status_map \cup {"UNKNOWN", "COMPLETED", "shipped"}

ClassifyRows == [order_id : {1}, created_at : 0..MaxTime, updated_at : 0..MaxTime,
                 order_status : ClassifyStatuses]

ClassifyInit ==
    /\ orders \in {<<r>> : r \in ClassifyRows}
    /\ orders_table = orders
    /\ handlers = TRUE
    /\ proc = "alive"
    /\ running = TRUE
    /\ producer_closed = FALSE
    /\ last_processed = [orders |-> NoTimestamp, products |-> NoTimestamp, customers |-> NoTimestamp]
    /\ pc = [order_monitor |-> "classify", MainThread |-> "sleep"]
    /\ conn = "none"
    /\ idx = 1
    /\ event_type = None
    /\ inflight = <<>>
    /\ published = <<>>
    /\ faults = 0
    /\ wm_start = NoTimestamp
    /\ cycle_sent = 0
    /\ cycle_result = "none"
    /\ prev_unacked = {}
    /\ reachable = [source |-> TRUE, sink |-> TRUE]
    /\ restarts = 0
    /\ loader = LoaderIdle
    /\ seed = SeedIdle
    /\ peer = [t \in Peers |-> PeerNotStarted]

\* event_type = self._determine_order_event_type(order)
Classify ==
    /\ pc[OM] = "classify"
    /\ event_type' = _determine_order_event_type(orders[idx])
    /\ Goto(OM, "classified")
    /\ UNCHANGED <<orders_table, handlers, proc, running, producer_closed,
                   last_processed, conn, orders, idx, inflight,
                   published, faults, wm_start, cycle_sent, cycle_result,
                   prev_unacked>>
    /\ UNCHANGED <<reachable, restarts, peer, loader, seed>>

SpecClassify == ClassifyInit /\ [][Classify]_vars

\* ===================================================================== claims
Watermark == last_processed["orders"]

CycleAborted(kind) == pc[OM] = "sleep" /\ cycle_result = kind

AckedIds == {published[k].event.order_id : k \in {j \in DOMAIN published : published[j].acked}}

C2_EveryRowEventuallyAcked ==
    <>(\A i \in DOMAIN orders_table : i \in AckedIds)

\* C3 as stated: the process does not exit, and the sink is not closed,
\* while a cycle of the loop is in flight.
CycleInFlight == pc[OM] \in {"connect", "query", "for", "future_get"}

C3_ShutdownNotPreemptive ==
    /\ proc = "exited" => ~CycleInFlight
    /\ producer_closed => ~CycleInFlight

Classified == pc[OM] = "classified"

\* C4: a record whose modified and created timestamps are less than 60
\* seconds apart is classified 'created', whatever its status.
C4_RecentIsCreated ==
    (Classified /\ orders[1].updated_at - orders[1].created_at < 60
                /\ orders[1].created_at - orders[1].updated_at < 60)
        => event_type = "created"

\* C4 witness: {created: T, modified: T+10s, status: CONFIRMED} -> created
C4_Witness ==
    /\ Classified
    /\ orders[1].updated_at = orders[1].created_at + 10
    /\ orders[1].order_status = "CONFIRMED"
    /\ event_type = "created"

\* C5: a record with modified - created >= 60 seconds and a status of the
\* table is classified PENDING->created, CONFIRMED->confirmed,
\* SHIPPED->shipped, DELIVERED->delivered, CANCELLED->cancelled.
C5_MappedStatus ==
    (Classified /\ orders[1].updated_at - orders[1].created_at >= 60) =>
        /\ orders[1].order_status = "PENDING" => event_type = "created"
        /\ orders[1].order_status = "CONFIRMED" => event_type = "confirmed"
        /\ orders[1].order_status = "SHIPPED" => event_type = "shipped"
        /\ orders[1].order_status = "DELIVERED" => event_type = "delivered"
        /\ orders[1].order_status = "CANCELLED" => event_type = "cancelled"

\* C5 witness: a gap of exactly 60 seconds is classified by status
C5_Witness ==
    /\ Classified
    /\ orders[1].updated_at = orders[1].created_at + 60
    /\ orders[1].order_status = "SHIPPED"
    /\ event_type = "shipped"

\* C6: a record with modified - created >= 60 seconds and a status outside
\* the table is classified 'updated'.
C6_UnmappedIsUpdated ==
    (Classified /\ orders[1].updated_at - orders[1].created_at >= 60
                /\ orders[1].order_status \notin
                      {"PENDING", "CONFIRMED", "SHIPPED", "DELIVERED", "CANCELLED"})
        => event_type = "updated"

\* C6 witness: status UNKNOWN, modified two minutes after created
C6_Witness ==
    /\ Classified
    /\ orders[1].updated_at = orders[1].created_at + 120
    /\ orders[1].order_status = "UNKNOWN"
    /\ event_type = "updated"

OrderEventTypes == {"created", "confirmed", "shipped", "delivered", "cancelled", "updated"}

C8_WatermarkMonotone ==
    [][/\ Watermark # NoTimestamp => last_processed'["orders"] # NoTimestamp
       /\ Watermark <= last_processed'["orders"]]_vars

\* C8 witness: the watermark has advanced in an earlier and in this cycle
C8_Witness ==
    /\ wm_start # NoTimestamp
    /\ Watermark > wm_start
    /\ cycle_result = "completed"

\* C9: a cycle aborted by a failed connection or query has published
\* nothing and left the watermark alone, and the loop goes on: it sleeps,
\* tests self.running and starts another cycle unless shutdown cleared it.
C9_SourceErrorRecovered ==
    cycle_result = "source_error" =>
        /\ cycle_sent = 0
        /\ Watermark = wm_start
        /\ pc[OM] \in {"sleep", "while", "returned"}
        /\ pc[OM] = "returned" => ~running
        /\ (Alive /\ pc[OM] = "while" /\ running) => ENABLED CycleStart

\* C9 witness: the source failed after an earlier cycle had advanced the
\* watermark, and the loop is back at its while test
C9_Witness ==
    /\ cycle_result = "source_error"
    /\ pc[OM] = "while" /\ running /\ Alive
    /\ wm_start # NoTimestamp

\* C10 as stated: the poll that follows a cycle aborted by a sink failure
\* returns every record the failed batch left unacknowledged.
C10_ReplayReturnsUnacked ==
    (pc[OM] = "for" /\ idx = 1 /\ cycle_sent = 0) =>
        prev_unacked \subseteq {orders[k].order_id : k \in DOMAIN orders}

\* the step of Query that follows a cycle a sink failure aborted on record
\* idx > 1: until that step orders and idx still hold the failed batch and
\* the position of the failed publish
PollAfterPartialBatch ==
    /\ pc[OM] = "query" /\ pc'[OM] = "for"
    /\ prev_unacked # {} /\ idx > 1

C12_NoTerminalState ==
    /\ [](pc[OM] # "returned")
    /\ [](cycle_result \in {"completed", "source_error", "sink_error"}
            => <>(pc[OM] = "connect"))

\* C12 witness: a cycle has started after a cycle that a sink error aborted
C12_Witness ==
    /\ pc[OM] = "connect" /\ running
    /\ faults < MaxFaults
    /\ published # <<>> /\ ~published[Len(published)].acked

\* C17 as stated: when future.get raises (no acknowledgement in time) the
\* event counts as undelivered, the cycle aborts as for a failed send, and
\* the watermark stays below the modification time of that record.
C17_AckTimeoutKeepsWatermarkBelow ==
    [][(pc[OM] = "future_get" /\ pc'[OM] = "sleep") =>
        /\ cycle_result' = "sink_error"
        /\ ~published'[Len(published')].acked
        /\ last_processed' = last_processed
        /\ Watermark < orders[idx].updated_at]_vars

MappedStatuses == {"PENDING", "CONFIRMED", "SHIPPED", "DELIVERED", "CANCELLED"}

\* the entries of published that the current or last cycle appended
CycleEntries == cycle_sent - Len(inflight)
CycleEntry(k) == published[Len(published) - CycleEntries + k]

\* C18: a record with an unmapped status never blocks the cycle: it can be
\* sent like any other, an abort comes only from a source or sink failure,
\* and in a completed cycle every record of the batch, the unmapped ones
\* (classified 'updated' or 'created') and those after them, was published.
C18_UnmappedStatusNeverBlocks ==
    /\ [](((Alive /\ pc[OM] = "for" /\ idx <= Len(orders) /\ ~producer_closed)
             => ENABLED Send)
          /\ ((pc[OM] = "sleep" /\ cycle_result = "completed") =>
                \A k \in DOMAIN orders :
                    \E j \in DOMAIN published :
                        /\ published[j].acked
                        /\ published[j].event.order_id = orders[k].order_id
                        /\ orders[k].order_status \notin MappedStatuses =>
                              published[j].event.event_type \in {"updated", "created"}))
    /\ [][(cycle_result = "in_flight" /\ cycle_result' \in {"source_error", "sink_error"})
            => (faults' < faults \/ producer_closed)]_vars

\* C18 witness: a completed cycle whose first record has the unmapped status
\* COMPLETED, was classified 'updated' and is followed by another record
C18_Witness ==
    /\ pc[OM] = "sleep" /\ cycle_result = "completed"
    /\ Len(orders) >= 2 /\ cycle_sent = Len(orders)
    /\ orders[1].order_status = "COMPLETED"
    /\ CycleEntry(1).event.event_type = "updated"
    /\ CycleEntry(2).acked

\* C19: a cycle without errors publishes exactly one event per record of the
\* batch, in the order of the batch.
C19_OneEventPerRecord ==
    (pc[OM] = "sleep" /\ cycle_result = "completed") =>
        /\ cycle_sent = Len(orders)
        /\ Len(published) >= Len(orders)
        /\ \A k \in DOMAIN orders :
              /\ CycleEntry(k).acked
              /\ CycleEntry(k).event = OrderEvent(orders[k], CycleEntry(k).event.event_type)

\* C19 witness: a completed cycle over a batch of three records
C19_Witness ==
    /\ pc[OM] = "sleep" /\ cycle_result = "completed"
    /\ Len(orders) = 3 /\ Len(published) = 3
    /\ orders[1].updated_at < orders[3].updated_at

\* C20: a failed publish of the k-th record ends the cycle: the records
\* 1..k were each handed to the sink once, in order, the k-th is the last
\* entry, nothing after it is sent, and the loop is at its time.sleep; while
\* a cycle is in flight none of its publishes has failed.
C20_FailedPublishEndsCycle ==
    /\ CycleAborted("sink_error") =>
          /\ cycle_sent = idx /\ idx <= Len(orders) /\ inflight = <<>>
          /\ \A k \in 1..idx :
                /\ CycleEntry(k).event.order_id = orders[k].order_id
                /\ CycleEntry(k).acked <=> k < idx
    /\ pc[OM] \in {"for", "future_get"} =>
          \A k \in 1..CycleEntries : CycleEntry(k).acked
    /\ cycle_result = "sink_error" => pc[OM] \in {"sleep", "while", "returned"}

\* C20 witness: the publish of the 2nd of three records failed
C20_Witness ==
    /\ CycleAborted("sink_error")
    /\ Len(orders) = 3 /\ idx = 2 /\ cycle_sent = 2
    /\ CycleEntry(1).acked /\ ~CycleEntry(2).acked

\* the state right after cursor.fetchall(): orders is what the poll returned
\* for the watermark the cycle started with
JustPolled == pc[OM] = "for" /\ idx = 1 /\ cycle_sent = 0

\* a row the WHERE clause of the poll admits
Admitted(row) == Watermark = NoTimestamp \/ row.updated_at > Watermark

\* C14: a poll returns at most 100 rows of the table, in ascending order of
\* updated_at, each modified strictly after the watermark; it returns the
\* first rows in that order: a row it leaves out is admitted only when 100
\* rows not later than it were returned (with the watermark unset: the first
\* 100 rows of the whole table).
C14_PollBoundedAscendingAboveWatermark ==
    JustPolled =>
        /\ Len(orders) <= LIMIT
        /\ \A k \in 1..(Len(orders) - 1) : orders[k].updated_at <= orders[k + 1].updated_at
        /\ \A k \in DOMAIN orders :
              /\ Admitted(orders[k])
              /\ orders[k] = orders_table[orders[k].order_id]
        /\ \A j, k \in DOMAIN orders : orders[j] = orders[k] => j = k
        /\ \A i \in DOMAIN orders_table :
              (Admitted(orders_table[i]) /\ \A k \in DOMAIN orders : orders[k] # orders_table[i])
                => /\ Len(orders) = LIMIT
                   /\ \A k \in DOMAIN orders : orders[k].updated_at <= orders_table[i].updated_at

\* C14 witness: the first poll of a table of more than LIMIT rows, watermark
\* unset, returned LIMIT rows
C14_Witness ==
    /\ JustPolled
    /\ Watermark = NoTimestamp
    /\ Len(orders_table) > LIMIT
    /\ Len(orders) = LIMIT

\* EventProducer() is over: it returned or it raised
ConstructionOver == proc = "exited" \/ pc[MT] # "__init__"

NoLoopStarted == pc[OM] = "not_started" /\ \A t \in Peers : peer[t].pc = "not_started"

\* C13 as stated: with the source or the sink unreachable at startup the
\* process has exited once construction is over and no loop was started;
\* and the process exits for no other reason.
C13_UnreachableAtStartupIsFatal ==
    /\ ((~reachable.source \/ ~reachable.sink) /\ ConstructionOver)
         => (proc = "exited" /\ NoLoopStarted)
    /\ proc = "exited" => (~reachable.source \/ ~reachable.sink)

\* C13 amended: only an unreachable sink is fatal at startup (the process
\* exits in EventProducer() and no loop is started).  EventProducer() never
\* connects to the source: with the source unreachable the process stays
\* alive, the loops start, and every orders cycle ends in a source error that
\* is retried, publishing nothing.  No error terminates the process once the
\* sink was reached.
C13_OnlyUnreachableSinkIsFatal ==
    /\ (~reachable.sink /\ ConstructionOver) => (proc = "exited" /\ NoLoopStarted)
    /\ reachable.sink => proc = "alive"
    /\ (reachable.sink /\ ~reachable.source) =>
          /\ published = <<>>
          /\ cycle_result \in {"none", "in_flight", "source_error"}
          /\ pc[OM] \in {"not_started", "while", "connect", "sleep"}

\* C13 witness: the source is unreachable, the sink is not; the loops run
\* and the orders loop and a peer loop sleep after a source error
C13_Witness ==
    /\ ~reachable.source /\ reachable.sink
    /\ proc = "alive"
    /\ pc[OM] = "sleep" /\ cycle_result = "source_error"
    /\ \E t \in Peers : peer[t].pc = "sleep" /\ peer[t].result = "source_error"

\* the locals of monitor_orders and the attributes it reads or writes
OrdersLoopState == <<last_processed, pc[OM], conn, orders, idx, event_type, inflight,
                     running, proc>>

\* C15: a step of the inventory, price or customer loop, a failing one
\* included, leaves the orders watermark, the state of the orders loop and
\* the state of the two other peer loops unchanged; a step of the orders
\* loop leaves the peer loops unchanged; a loop that sleeps after a failed
\* cycle goes on to its next cycle, and no loop ever returns.
C15_LoopsShareNoMutableState ==
    /\ [][/\ \A t \in Peers :
              (peer[t].pc # "not_started" /\ peer'[t] # peer[t]) =>
                  /\ OrdersLoopState' = OrdersLoopState
                  /\ \A u \in Peers \ {t} : peer'[u] = peer[u]
                  /\ peer[t].pc = "sleep" => peer'[t].pc = "while"
          /\ (pc[OM] # "not_started" /\ pc'[OM] # pc[OM]) =>
                  /\ peer' = peer
                  /\ pc[OM] = "sleep" => pc'[OM] = "while"]_vars
    /\ [](pc[OM] # "returned" /\ \A t \in Peers : peer[t].pc # "returned")

\* C15 witness: a peer loop sleeps after a failed publish while the orders
\* loop, its watermark advanced, is in a cycle and another peer is in its
\* batch
C15_Witness ==
    /\ Watermark # NoTimestamp
    /\ pc[OM] \in {"connect", "query", "for"}
    /\ \E t, u \in Peers :
          /\ t # u
          /\ peer[t].pc = "sleep" /\ peer[t].result = "sink_error"
          /\ peer[u].pc = "for"

\* C16: the watermark is unset when the orders loop starts; a restart unsets
\* it, and only a restart or an acknowledgement changes it; a poll made while
\* it is unset has no lower bound: it returns every row of the table (up to
\* LIMIT), the rows delivered before the restart included.
C16_WatermarkMemoryOnly ==
    /\ []((pc[OM] = "while" /\ cycle_result = "none") => Watermark = NoTimestamp)
    /\ [][/\ restarts' # restarts => Watermark' = NoTimestamp
          /\ Watermark' # Watermark =>
                \/ restarts' # restarts
                \/ pc[OM] = "future_get" /\ pc'[OM] = "for"]_vars
    /\ []((JustPolled /\ Watermark = NoTimestamp) =>
            /\ Len(orders) = Min(Len(orders_table), LIMIT)
            /\ \A k \in DOMAIN orders : orders[k] = orders_table[orders[k].order_id]
            /\ \A j, k \in DOMAIN orders : orders[j] = orders[k] => j = k)

\* C16 witness: after a restart the event of a row acknowledged before the
\* restart was sent and acknowledged again
C16_Witness ==
    /\ restarts > 0
    /\ \E j, k \in DOMAIN published :
          /\ j < k
          /\ published[j].acked /\ published[k].acked
          /\ published[j].event = published[k].event

\* C21: in the orders loop at most one publish is unacknowledged, and only
\* while the loop waits on its future; a record is sent only when every
\* record of the batch before it was acknowledged; a new cycle (and so its
\* poll) starts only when nothing is in flight and the previous batch was
\* emitted to its end or its cycle was aborted.
C21_NoPipelining ==
    /\ [](Len(inflight) <= 1 /\ (inflight # <<>> <=> pc[OM] = "future_get"))
    /\ [][/\ cycle_sent' = cycle_sent + 1 =>
                /\ inflight = <<>>
                /\ cycle_sent = idx - 1
                /\ \A k \in 1..(idx - 1) : CycleEntry(k).acked
          /\ (pc[OM] = "while" /\ pc'[OM] = "connect") =>
                /\ inflight = <<>>
                /\ cycle_result \in {"none", "completed", "source_error", "sink_error"}
                /\ cycle_result = "completed" => idx > Len(orders)
          /\ (pc[OM] = "query" /\ pc'[OM] = "for") =>
                inflight = <<>> /\ cycle_sent = 0]_vars

\* C21 witness: the second record of the orders batch is in flight, the
\* first was acknowledged, and the inventory loop is inside its own batch
C21_Witness ==
    /\ pc[OM] = "future_get" /\ idx = 2 /\ Len(inflight) = 1
    /\ CycleEntry(1).acked
    /\ \E t \in Peers : peer[t].pc = "for" /\ peer[t].todo > 0

\* the events the sink acknowledged
AckedEvents == {published[k].event : k \in {j \in DOMAIN published : published[j].acked}}

\* C22: the orders watermark is unset or is the modification time of a
\* record whose publish was acknowledged; it changes only in the step that
\* records the acknowledgement of the record it is taken from, never in a
\* step that records a failed publish.
C22_WatermarkFromAckedRecord ==
    /\ [](Watermark = NoTimestamp \/ \E e \in AckedEvents : e.timestamp = Watermark)
    /\ [][Watermark' # Watermark =>
            /\ Len(published') = Len(published) + 1
            /\ published'[Len(published')].acked
            /\ published'[Len(published')].event.order_id = orders[idx].order_id
            /\ Watermark' = orders[idx].updated_at]_vars

\* C22 witness: the first record was acknowledged and the publish of the
\* second, modified later, failed; the watermark is the first record's time
C22_Witness ==
    /\ CycleAborted("sink_error") /\ idx = 2
    /\ published[Len(published)].acked = FALSE
    /\ Watermark = orders[1].updated_at
    /\ orders[1].updated_at < orders[2].updated_at

\* C23 as stated, for the orders loop: when a cycle opens its connection the
\* connection of the previous cycle is not open any more, whether that cycle
\* completed or was aborted; and at its time.sleep the loop holds no open
\* connection.
C23_ConnectionClosedBeforeNextCycle ==
    /\ [][(pc[OM] = "connect" /\ pc'[OM] = "query") => conn # "open"]_vars
    /\ [](pc[OM] = "sleep" => conn # "open")

\* C24: every inventory event published is a 'low_stock_alert' exactly when
\* its current_stock is below the reorder point 20 and a 'stock_change'
\* otherwise; its previous_stock is current_stock + 5, and no event is a
\* 'restock'.
C24_InventoryEventType ==
    \A k \in DOMAIN published :
        LET e == published[k].event IN
        /\ e.reorder_point = REORDER_POINT
        /\ e.previous_stock = e.current_stock + STOCK_STEP
        /\ e.event_type = "low_stock_alert" <=> e.current_stock < REORDER_POINT
        /\ e.event_type = "stock_change" <=> e.current_stock >= REORDER_POINT
        /\ e.event_type # "restock"

\* C24 witness: events on both sides of the reorder point were published,
\* at stock 19 and at stock 20
C24_Witness ==
    /\ peer[IM].pc = "sleep" /\ peer[IM].result = "completed"
    /\ \E k \in DOMAIN published :
          published[k].event.current_stock \in {REORDER_POINT - 1, REORDER_POINT}

\* the position of a table in the list of run_full_load
TableIndex(t) == CHOOSE k \in DOMAIN tables : tables[k] = t

\* C25 as stated: run_full_load is at its verification step, or has logged
\* success, only if all three tables were extracted and loaded; after a
\* table failed to extract or to load no later table is loaded; and when
\* main is over close_connections has run.
C25_FullLoadAllOrNothing ==
    /\ (loader.pc = "verify" \/ loader.success) =>
          (loader.extracted = TableSet /\ loader.loaded = TableSet)
    /\ \A t \in loader.failed : \A u \in loader.loaded : TableIndex(u) < TableIndex(t)
    /\ loader.pc = "exited" => loader.closed

\* C26 as stated: when a seed function returns, every record but the one
\* whose insert failed is committed.
C26_FailedInsertLosesOnlyItself ==
    seed.pc = "returned" => seed.committed = (1..seed.num) \ seed.failed

====
